---- MODULE Spec2Model ----
(***************************************************************************)
(* A model of linker.c: the soinfo pool (alloc_info / free_info), the      *)
(* lookup entry point find_library and the loader load_library with the    *)
(* helpers it calls.                                                       *)
(*                                                                         *)
(* A pointer into sopool is modelled by the slot's position 1..SO_MAX      *)
(* (sopool + k is position k + 1) and the null pointer by NULL.  sopool is  *)
(* held as its carved part, the slots 1..socount: the code reaches no slot *)
(* beyond it, and a slot is zero (static storage) when it is carved.       *)
(***************************************************************************)
EXTENDS Integers, Sequences, FiniteSets, TLC

\* ------------------------------------------------------------------------
\* Program constants
\* ------------------------------------------------------------------------

\* #define SO_MAX 64
SO_MAX == 64

\* The name limit alloc_info compares strlen(name) with (linker.h).
SOINFO_NAME_LEN == 128

\* open_library: if(strlen(name) > 256) return -1;
OPEN_NAME_MAX == 256

\* The null pointer (freelist = NULL, solist = NULL, sonext = NULL).
NULL == 0

\* sizeof(Elf32_Sym) and sizeof(Elf32_Rel), the divisors of update_symbols
\* and do_relocate.
SIZEOF_SYM == 16

SIZEOF_REL == 8

\* e_ident[EI_MAG0..EI_MAG3] of an ELF object: 0x7f 'E' 'L' 'F'.
ELFMAG == <<127, 69, 76, 70>>

\* ------------------------------------------------------------------------
\* Bounds of the model
\* ------------------------------------------------------------------------

\* The number of find_library calls (re-entrant ones included) of a run.
MaxCalls == 2

\* ------------------------------------------------------------------------
\* State
\* ------------------------------------------------------------------------

VARIABLES
    socount,    \* static int socount
    sopool,     \* static soinfo sopool[SO_MAX]
    freelist,   \* static soinfo *freelist
    solist,     \* static soinfo *solist
    sonext,     \* static soinfo *sonext
    heap,       \* the calloc'ed buffers, in allocation order; none is freed
    proc,       \* "running", "exited" (exit(-1)) or "crashed" (a fault)
    loading,    \* the load_library activation in progress, if any
    calls,      \* the number of calls made so far
    last,       \* the record of the call that completed last
    prev,       \* the call that completed before it, in brief
    ld,         \* the locals of a load_library activation followed step
                \* by step, from the first walk over the sections on
    onerel      \* one relocation entry applied to a piece of memory

vars == <<socount, sopool, freelist, solist, sonext, heap, proc, loading,
          calls, last, prev, ld, onerel>>

\* The file-scope statics of linker.c, as one value the operators below
\* take and return.
Mach == [socount |-> socount, sopool |-> sopool, freelist |-> freelist,
         solist |-> solist, heap |-> heap]

\* A name is its text and its length strlen(name); strcmp compares both.
Name(text, len) == [text |-> text, len |-> len]

NoName == Name("", 0)

\* A soinfo of the zero-initialised static array.
ZeroInfo == [name |-> NoName, flags |-> {}, next |-> NULL, image |-> NULL,
             ba_index |-> 0, refcount |-> 0]

\* ------------------------------------------------------------------------
\* The soinfo pool: alloc_info and free_info
\* ------------------------------------------------------------------------

\* alloc_info with the name check off by one (strlen(name) > SOINFO_NAME_LEN).
alloc_info_gt(m, name) ==
    IF name.len > SOINFO_NAME_LEN
    THEN [si |-> NULL, m |-> m, err |-> <<"toolong">>]
    ELSE IF m.freelist = NULL /\ m.socount = SO_MAX
    THEN [si |-> NULL, m |-> m, err |-> <<"toomany">>]
    ELSE LET m1 == IF m.freelist = NULL
                   THEN [m EXCEPT !.freelist = m.socount + 1,
                                  !.socount = m.socount + 1,
                                  !.sopool = Append(@, ZeroInfo)]
                   ELSE m
             si == m1.freelist
             m2 == [m1 EXCEPT !.freelist = m1.sopool[si].next,
                              !.sopool[si] = [ZeroInfo EXCEPT !.name = name,
                                                              !.ba_index = -1]]
         IN  [si |-> si, m |-> m2, err |-> <<>>]

\* alloc_info(name): the descriptor (or NULL), the statics afterwards and
\* the ERROR messages printed.
alloc_info(m, name) ==
    IF name.len >= SOINFO_NAME_LEN
    THEN [si |-> NULL, m |-> m, err |-> <<"toolong">>]
    ELSE IF m.freelist = NULL /\ m.socount = SO_MAX
    THEN [si |-> NULL, m |-> m, err |-> <<"toomany">>]
    ELSE \* freelist = sopool + socount++; freelist->next = NULL; (the slot
         \* joins the carved part of sopool)
         LET m1 == IF m.freelist = NULL
                   THEN [m EXCEPT !.freelist = m.socount + 1,
                                  !.socount = m.socount + 1,
                                  !.sopool = Append(@, ZeroInfo)]
                   ELSE m
             \* si = freelist; freelist = freelist->next;
             si == m1.freelist
             \* memset(si, 0, ...); strcpy(si->name, name); ba_index = -1;
             \* next = NULL; refcount = 0
             m2 == [m1 EXCEPT !.freelist = m1.sopool[si].next,
                              !.sopool[si] = [ZeroInfo EXCEPT !.name = name,
                                                              !.ba_index = -1]]
         IN  [si |-> si, m |-> m2, err |-> <<>>]

\* The loop of free_info: for(trav = solist; trav != NULL; trav = trav->next)
\* { if (trav == si) break; prev = trav; }.  fuel bounds the walk by the
\* longest list the pool can hold.
RECURSIVE trav_solist(_, _, _, _, _)
trav_solist(pool, trav, prevp, si, fuel) ==
    IF trav = NULL \/ trav = si \/ fuel = 0
    THEN [trav |-> trav, prev |-> prevp]
    ELSE trav_solist(pool, pool[trav].next, trav, si, fuel - 1)

\* free_info(si): the statics afterwards, the ERROR messages printed, and
\* whether the unlink wrote through a null prev (a fault).
free_info(m, si) ==
    LET r == trav_solist(m.sopool, m.solist, NULL, si, SO_MAX + 1) IN
    IF r.trav = NULL
    THEN [m |-> m, err |-> <<"notinsolist">>, crash |-> FALSE]
    ELSE IF r.prev = NULL
    THEN [m |-> m, err |-> <<>>, crash |-> TRUE]
    ELSE \* prev->next = si->next; si->next = freelist; freelist = si;
         [m |-> [m EXCEPT !.sopool[r.prev].next = m.sopool[si].next,
                          !.sopool[si].next = m.freelist,
                          !.freelist = si],
          err |-> <<>>, crash |-> FALSE]

\* Whether slot k is on the list that starts at head.
RECURSIVE OnList(_, _, _, _)
OnList(pool, head, k, fuel) ==
    IF head = NULL \/ fuel = 0 THEN FALSE
    ELSE IF head = k THEN TRUE
    ELSE OnList(pool, pool[head].next, k, fuel - 1)

\* The slots of the list that starts at head.
RECURSIVE ListSlots(_, _, _)
ListSlots(pool, head, fuel) ==
    IF head = NULL \/ fuel = 0 THEN {}
    ELSE {head} \cup ListSlots(pool, pool[head].next, fuel - 1)

\* ------------------------------------------------------------------------
\* Inputs: names, object files, failing system calls, undefined behaviour
\* ------------------------------------------------------------------------

\* Two short names, a name of exactly SOINFO_NAME_LEN characters and a name
\* longer than open_library accepts.  None starts with "/".
Names == {Name("a", 1), Name("b", 1), Name("x..x", SOINFO_NAME_LEN),
          Name("y..y", OPEN_NAME_MAX + 1)}

\* A section header with what the section holds: the Elf32_Sym entries of a
\* SHT_SYMTAB section, the Elf32_Rel entries of a SHT_REL section.
Sec(type, name, size) ==
    [sh_type |-> type, sname |-> name, sh_size |-> size, sh_info |-> 0,
     syms |-> <<>>, rels |-> <<>>]

SymSec(name, syms) ==
    [sh_type |-> "SHT_SYMTAB", sname |-> name,
     sh_size |-> Len(syms) * SIZEOF_SYM, sh_info |-> 0,
     syms |-> syms, rels |-> <<>>]

RelSec(name, info, rels) ==
    [sh_type |-> "SHT_REL", sname |-> name,
     sh_size |-> Len(rels) * SIZEOF_REL, sh_info |-> info,
     syms |-> <<>>, rels |-> rels]

Sec0 == Sec("SHT_NULL", "", 0)

Sym(shndx, value) == [st_shndx |-> shndx, st_value |-> value]

Rel(offset, sym, type) == [r_offset |-> offset, r_sym |-> sym, r_type |-> type]

ObjFile(ident, type, sh) ==
    [exists |-> TRUE, e_ident |-> ident, e_type |-> type, sh |-> sh]

\* The object files a call may find under a name.  Section i of the file is
\* sh[i + 1].
\*   absent    no regular file of that name
\*   ok        an empty REL table first, .text, .bss: no symbol table
\*   plain     .text and .bss only: no REL section at all
\*   exec      the sections of ok under e_type ET_EXEC
\*   badmagic  the sections of ok under a wrong fourth magic byte
\*   undef     a symbol table whose entry 1 is undefined (SHN_UNDEF)
\*   badrel    a REL table with one entry of an unsupported kind
OkSections ==
    <<Sec0, RelSec(".rel.text", 2, <<>>), Sec("SHT_PROGBITS", ".text", 16),
      Sec("SHT_NOBITS", ".bss", 8), Sec("SHT_STRTAB", ".shstrtab", 32)>>

Files ==
    [absent   |-> [exists |-> FALSE, e_ident |-> ELFMAG, e_type |-> "ET_REL",
                   sh |-> <<Sec0>>],
     ok       |-> ObjFile(ELFMAG, "ET_REL", OkSections),
     plain    |-> ObjFile(ELFMAG, "ET_REL",
                    <<Sec0, Sec("SHT_PROGBITS", ".text", 16),
                      Sec("SHT_NOBITS", ".bss", 8),
                      Sec("SHT_STRTAB", ".shstrtab", 32)>>),
     exec     |-> ObjFile(ELFMAG, "ET_EXEC", OkSections),
     badmagic |-> ObjFile(<<127, 69, 76, 71>>, "ET_REL", OkSections),
     undef    |-> ObjFile(ELFMAG, "ET_REL",
                    <<Sec0, RelSec(".rel.text", 2, <<>>),
                      Sec("SHT_PROGBITS", ".text", 16),
                      SymSec(".symtab", <<Sym("SHN_UNDEF", 0),
                                          Sym("SHN_UNDEF", 0)>>),
                      Sec("SHT_STRTAB", ".shstrtab", 32)>>),
     badrel   |-> ObjFile(ELFMAG, "ET_REL",
                    <<Sec0, RelSec(".rel.text", 2,
                                   <<Rel(4, 0, "R_386_GOT32")>>),
                      Sec("SHT_PROGBITS", ".text", 16),
                      Sec("SHT_STRTAB", ".shstrtab", 32)>>)]

FileIds == DOMAIN Files

\* The system call or calloc of load_library that fails in a call, if any.
\* load_library handles more failures than these in the same way (the
\* lseek calls, the calloc of sechdrs and shstrtbl); a call draws one of:
HeadFaults == {"none", "read_hdr"}

TailFaults == {"none", "read_shdr", "read_str", "calloc_image"}

\* What the build makes of the undefined behaviour of a load:
\*   err0   the value of the uninitialised local err of load_library
\*   mem    what reading through sechdrs[..].sh_addr gives: the code never
\*          stores a load address there, so the pointer is the file's value;
\*          the read faults ("segv") or finds the table's entries ("asfile")
\*   dlsym  what the body-less resolve_symbol returns: NULL or a pointer
UBs == [err0 : {0, -1}, mem : {"segv", "asfile"}, dlsym : {NULL, 1}]

NoUB == [err0 |-> 0, mem |-> "asfile", dlsym |-> 1]

\* The choices a load of f can tell apart: err is read before it is
\* written only if section 1 exists and is no SHT_REL section; a table is
\* read through sh_addr only if it has entries to read (a symbol table
\* beyond entry 0, a REL table); resolve_symbol is called only for an
\* undefined symbol.  The other components are left at NoUB's.
UBsOf(f) ==
    {ub \in UBs :
        /\ (Len(f.sh) < 2 \/ f.sh[2].sh_type = "SHT_REL") => ub.err0 = NoUB.err0
        /\ (\A i \in 1..Len(f.sh) :
                Len(f.sh[i].syms) < 2 /\ Len(f.sh[i].rels) = 0)
              => ub.mem = NoUB.mem
        /\ (\A i \in 1..Len(f.sh) : \A j \in 2..Len(f.sh[i].syms) :
                f.sh[i].syms[j].st_shndx # "SHN_UNDEF")
              => ub.dlsym = NoUB.dlsym}

\* ------------------------------------------------------------------------
\* The helpers of load_library
\* ------------------------------------------------------------------------

\* open_library(name) on a file system that holds f under the name: the
\* descriptor (-1 on failure) and the I/O done.  _open_lib is a stat and,
\* for a regular file, an open.
open_library(name, f) ==
    IF name.len > OPEN_NAME_MAX THEN [fd |-> -1, io |-> <<>>]
    ELSE IF f.exists THEN [fd |-> 3, io |-> <<"stat", "open">>]
    ELSE [fd |-> -1, io |-> <<"stat">>]

\* verify_elf_object without the e_type check.
verify_elf_object_notype(f) ==
    IF f.e_ident[1] # ELFMAG[1] THEN [r |-> -1, err |-> <<>>]
    ELSE IF f.e_ident[2] # ELFMAG[2] THEN [r |-> -1, err |-> <<>>]
    ELSE IF f.e_ident[3] # ELFMAG[3] THEN [r |-> -1, err |-> <<>>]
    ELSE IF f.e_ident[4] # ELFMAG[4] THEN [r |-> -1, err |-> <<>>]
    ELSE [r |-> 0, err |-> <<>>]

\* verify_elf_object(&hdr, name): 0 or -1, and the ERROR messages printed.
verify_elf_object(f) ==
    IF f.e_ident[1] # ELFMAG[1] THEN [r |-> -1, err |-> <<>>]
    ELSE IF f.e_ident[2] # ELFMAG[2] THEN [r |-> -1, err |-> <<>>]
    ELSE IF f.e_ident[3] # ELFMAG[3] THEN [r |-> -1, err |-> <<>>]
    ELSE IF f.e_ident[4] # ELFMAG[4] THEN [r |-> -1, err |-> <<>>]
    ELSE IF f.e_type # "ET_REL" THEN [r |-> -1, err |-> <<"objtype">>]
    ELSE [r |-> 0, err |-> <<>>]

\* Whether the two walks of load_library take a section into the image.
Included(s) ==
    CASE s.sh_type = "SHT_PROGBITS" -> s.sname \in {".data", ".text"}
      [] s.sh_type \in {"SHT_NOBITS", "SHT_SYMTAB"} -> TRUE
      [] s.sh_type \in {"SHT_RELA", "SHT_REL"} -> s.sname \in {".data", ".text"}
      [] OTHER -> FALSE

\* The first walk: totalsize over the sections sh[i..].
RECURSIVE totalsize(_, _)
totalsize(sh, i) ==
    IF i > Len(sh) THEN 0
    ELSE (IF Included(sh[i]) THEN sh[i].sh_size ELSE 0) + totalsize(sh, i + 1)

\* The first walk: symindex, the index of the last SHT_SYMTAB section (0
\* when there is none), over the sections sh[i..].
RECURSIVE symindex(_, _, _)
symindex(sh, i, found) ==
    IF i > Len(sh) THEN found
    ELSE symindex(sh, i + 1, IF sh[i].sh_type = "SHT_SYMTAB" THEN i - 1 ELSE found)

\* The second walk: the I/O of the elf_loadsection calls (an lseek and a
\* read each; a REL or RELA section is loaded twice), over sh[i..].
RECURSIVE copy_io(_, _)
copy_io(sh, i) ==
    IF i > Len(sh) THEN <<>>
    ELSE (CASE ~Included(sh[i]) -> <<>>
            [] Included(sh[i]) /\ sh[i].sh_type \in {"SHT_RELA", "SHT_REL"} ->
                   <<"lseek", "read", "lseek", "read">>
            [] OTHER -> <<"lseek", "read">>)
         \o copy_io(sh, i + 1)

\* The loop of update_symbols where an unknown symbol is reported and
\* skipped (break) in place of exit(-1).
RECURSIVE sym_walk_skip(_, _, _, _)
sym_walk_skip(syms, i, num, ub) ==
    IF i >= num THEN [out |-> "ok", err |-> <<>>]
    ELSE IF syms[i + 1].st_shndx = "SHN_UNDEF" /\ ub.dlsym = NULL
    THEN LET r == sym_walk_skip(syms, i + 1, num, ub)
         IN  [out |-> r.out, err |-> <<"unknownsym">> \o r.err]
    ELSE sym_walk_skip(syms, i + 1, num, ub)

\* The loop of update_symbols over the entries i..num-1 of the table (entry
\* i is syms[i + 1]): "ok" when the loop ends, "exit" when an undefined
\* symbol has no match (resolve_symbol returned NULL) and exit(-1) ends the
\* process; and the ERROR messages printed.
RECURSIVE sym_walk(_, _, _, _)
sym_walk(syms, i, num, ub) ==
    IF i >= num THEN [out |-> "ok", err |-> <<>>]
    ELSE IF syms[i + 1].st_shndx = "SHN_UNDEF" /\ ub.dlsym = NULL
    THEN [out |-> "exit", err |-> <<"unknownsym">>]
    ELSE sym_walk(syms, i + 1, num, ub)

\* update_symbols(sechdrs, symindex, strtab): the outcome of its loop from
\* entry 1 on, or "crash" when reading the table through sh_addr faults.
update_symbols(sh, symidx, ub) ==
    LET s   == sh[symidx + 1]
        num == s.sh_size \div SIZEOF_SYM
    IN  IF num <= 1 THEN [out |-> "ok", err |-> <<>>]
        ELSE IF ub.mem = "segv" THEN [out |-> "crash", err |-> <<>>]
        ELSE sym_walk(s.syms, 1, num, ub)

\* The loop of do_relocate over the entries rels[i..] (entry i is
\* rels[i + 1]).
RECURSIVE rel_walk(_, _, _)
rel_walk(rels, i, num) ==
    IF i >= num THEN [ret |-> 0, err |-> <<>>]
    ELSE IF rels[i + 1].r_type \in {"R_386_32", "R_386_PC32"}
    THEN rel_walk(rels, i + 1, num)
    ELSE [ret |-> -1, err |-> <<"unknownrel">>]

\* do_relocate(sechdrs, symindex, relsec): its return value, whether
\* reading the table through sh_addr faulted, and the ERROR messages.
do_relocate(sh, relsec, ub) ==
    LET s   == sh[relsec + 1]
        num == s.sh_size \div SIZEOF_REL
    IN  IF num = 0 THEN [ret |-> 0, crash |-> FALSE, err |-> <<>>]
        ELSE IF ub.mem = "segv" THEN [ret |-> 0, crash |-> TRUE, err |-> <<>>]
        ELSE LET w == rel_walk(s.rels, 0, num)
             IN  [ret |-> w.ret, crash |-> FALSE, err |-> w.err]

\* The relocation loop of load_library, for (i = 1; i < e_shnum; i++), from
\* section i on with the local err holding e: "ok", "fail" (goto fail) or
\* "crash".
RECURSIVE reloc_loop(_, _, _, _)
reloc_loop(sh, i, e, ub) ==
    IF i >= Len(sh) THEN [out |-> "ok", err |-> <<>>]
    ELSE LET d  == IF sh[i + 1].sh_type = "SHT_REL"
                   THEN do_relocate(sh, i, ub)
                   ELSE [ret |-> e, crash |-> FALSE, err |-> <<>>]
         IN  IF d.crash THEN [out |-> "crash", err |-> d.err]
             ELSE IF d.ret # 0 THEN [out |-> "fail", err |-> d.err]
             ELSE reloc_loop(sh, i + 1, d.ret, ub)

\* ------------------------------------------------------------------------
\* load_library and find_library
\* ------------------------------------------------------------------------

\* The fail: label of load_library where a failed load is remembered: the
\* descriptor gets FLAG_ERROR and is put at the head of solist.
fail_path_cached(m, si) ==
    IF si = NULL THEN [m |-> m, err |-> <<>>, crash |-> FALSE]
    ELSE [m |-> [m EXCEPT !.sopool[si].flags = @ \cup {"FLAG_ERROR"},
                          !.sopool[si].next = m.solist,
                          !.solist = si],
          err |-> <<>>, crash |-> FALSE]

\* The fail: label of load_library: if (si) free_info(si); close(fd).
fail_path(m, si) ==
    IF si = NULL THEN [m |-> m, err |-> <<>>, crash |-> FALSE]
    ELSE free_info(m, si)

\* load_library(name) up to the allocation of the descriptor: open_library,
\* the read of the ELF header, verify_elf_object, alloc_info.  stage names
\* the step that ended it ("alloc_ok": the descriptor si is allocated and
\* the load goes on).
load_head(m, name, f, fault) ==
    LET o == open_library(name, f)
        v == verify_elf_object(f)
        a == alloc_info(m, name)
        R(stage, si, m1, io, err) ==
            [stage |-> stage, si |-> si, m |-> m1, io |-> io, err |-> err]
    IN  IF o.fd = -1 THEN R("open", NULL, m, o.io, <<>>)
        ELSE IF fault = "lseek_hdr"
        THEN R("lseek_hdr", NULL, fail_path(m, NULL).m,
               o.io \o <<"lseek">>, <<"lseek">>)
        ELSE IF fault = "read_hdr"
        THEN R("read_hdr", NULL, fail_path(m, NULL).m,
               o.io \o <<"lseek", "read">>, <<"read">>)
        ELSE IF v.r < 0
        THEN R("verify", NULL, fail_path(m, NULL).m,
               o.io \o <<"lseek", "read">>, v.err \o <<"notelf">>)
        ELSE IF a.si = NULL
        THEN R("alloc", NULL, fail_path(a.m, NULL).m,
               o.io \o <<"lseek", "read">>, a.err)
        ELSE R("alloc_ok", a.si, a.m, o.io \o <<"lseek", "read">>, <<>>)

\* calloc: the buffer joins the heap; its address is its position there.
calloc(m, kind, si) == [m EXCEPT !.heap = Append(@, [kind |-> kind, owner |-> si])]

\* load_library from the allocation of the descriptor si to its return: the
\* section headers, the section name table, the two walks, update_symbols,
\* the relocation loop.  res is the value returned (NULL on failure and
\* when the call does not return), proc what became of the process.
load_tail(m, si, f, fault, ub) ==
    LET sh    == f.sh
        m1    == calloc(m, "sechdrs", si)
        m2    == calloc(m1, "shstrtbl", si)
        m3    == [calloc(m2, "image", si)
                     EXCEPT !.sopool[si].image = Len(m2.heap) + 1]
        io1   == <<"lseek", "read">>
        io2   == io1 \o <<"lseek", "read">>
        io3   == io2 \o copy_io(sh, 1)
        us    == update_symbols(sh, symindex(sh, 1, 0), ub)
        rl    == reloc_loop(sh, 1, ub.err0, ub)
        Fail(stage, mf, io, err) ==
            LET fp == fail_path(mf, si)
            IN  [stage |-> stage, res |-> NULL, m |-> fp.m, io |-> io,
                 err |-> err \o fp.err,
                 proc |-> IF fp.crash THEN "crashed" ELSE "running"]
        Stop(stage, how, err) ==
            [stage |-> stage, res |-> NULL, m |-> m3, io |-> io3,
             err |-> err, proc |-> how]
    IN  CASE fault = "calloc_sechdrs" -> Fail(fault, m, <<>>, <<"nomem">>)
          [] fault = "lseek_shdr" -> Fail(fault, m1, <<"lseek">>, <<"lseek">>)
          [] fault = "read_shdr" -> Fail(fault, m1, io1, <<"read">>)
          [] fault = "calloc_shstrtbl" -> Fail(fault, m1, io1, <<"nomem">>)
          [] fault = "lseek_str" ->
                 Fail(fault, m2, io1 \o <<"lseek">>, <<"lseek">>)
          [] fault = "read_str" -> Fail(fault, m2, io2, <<"read">>)
          [] fault = "calloc_image" -> Fail(fault, m2, io2, <<"nomem">>)
          [] OTHER ->
                 IF us.out = "exit" THEN Stop("symbols", "exited", us.err)
                 ELSE IF us.out = "crash" THEN Stop("symbols", "crashed", us.err)
                 ELSE IF rl.out = "crash"
                 THEN Stop("relocate", "crashed", us.err \o rl.err)
                 ELSE IF rl.out = "fail"
                 THEN Fail("relocate", m3, io3, us.err \o rl.err)
                 ELSE [stage |-> "done", res |-> si, m |-> m3, io |-> io3,
                       err |-> us.err \o rl.err, proc |-> "running"]

\* The loop of find_library over solist from si on: "miss" when no entry
\* has the name, else what the entry's flags decide.
RECURSIVE find_scan(_, _, _, _)
find_scan(pool, si, name, fuel) ==
    IF si = NULL \/ fuel = 0 THEN [hit |-> "miss", si |-> NULL, err |-> <<>>]
    ELSE IF pool[si].name = name
    THEN IF "FLAG_ERROR" \in pool[si].flags
         THEN [hit |-> "error", si |-> NULL, err |-> <<>>]
         ELSE IF "FLAG_LINKED" \in pool[si].flags
         THEN [hit |-> "linked", si |-> si, err |-> <<>>]
         ELSE [hit |-> "recursive", si |-> NULL, err |-> <<"recursive">>]
    ELSE find_scan(pool, pool[si].next, name, fuel - 1)

\* find_library(name) as one call: the scan of solist and, on a miss,
\* load_library.  si is the descriptor alloc_info gave the call, if any.
find_library(m, name, f, fault, ub) ==
    LET sc == find_scan(m.sopool, m.solist, name, SO_MAX + 1)
        h  == load_head(m, name, f, fault)
        t  == load_tail(h.m, h.si, f, fault, ub)
    IN  IF sc.hit # "miss"
        THEN [stage |-> sc.hit, res |-> sc.si, si |-> NULL, m |-> m,
              io |-> <<>>, err |-> sc.err, proc |-> "running"]
        ELSE IF h.stage # "alloc_ok"
        THEN [stage |-> h.stage, res |-> NULL, si |-> NULL, m |-> h.m,
              io |-> h.io, err |-> h.err, proc |-> "running"]
        ELSE [stage |-> t.stage, res |-> t.res, si |-> h.si, m |-> t.m,
              io |-> h.io \o t.io, err |-> h.err \o t.err, proc |-> t.proc]

\* ------------------------------------------------------------------------
\* Memory: bytes, and 32-bit words as four bytes, least significant first
\* ------------------------------------------------------------------------

\* ELF32_R_TYPE values do_relocate handles, and the st_shndx values
\* update_symbols tells apart (elf.h).
R_386_32 == 1

R_386_PC32 == 2

SHN_UNDEF == 0

SHN_ABS == 65521

\* A 16-bit and a 32-bit value as stored in i386 memory and in the file.
LE16(n) == <<n % 256, (n \div 256) % 256>>

LE32(n) ==
    <<n % 256, (n \div 256) % 256, (n \div 65536) % 256,
      (n \div 16777216) % 256>>

\* calloc'ed memory is zero.
Zeros(n) == [k \in 1..n |-> 0]

\* The n bytes of mem from offset off on, and mem with the bytes b stored
\* from offset off on (offset 0 is mem[1]).
rd(mem, off, n) == [k \in 1..n |-> mem[off + k]]

wr(mem, off, b) ==
    [k \in 1..Len(mem) |->
        IF k > off /\ k <= off + Len(b) THEN b[k - off] ELSE mem[k]]

\* A halfword and a word (below 2^31) read from memory.
U16(b) == b[1] + 256 * b[2]

U32(b) == b[1] + 256 * b[2] + 65536 * b[3] + 16777216 * b[4]

\* uint32_t addition and subtraction: modulo 2^32, the carry out of the top
\* byte is dropped.
add32(a, b) ==
    LET s1 == a[1] + b[1]
        s2 == a[2] + b[2] + s1 \div 256
        s3 == a[3] + b[3] + s2 \div 256
        s4 == a[4] + b[4] + s3 \div 256
    IN  <<s1 % 256, s2 % 256, s3 % 256, s4 % 256>>

sub32(a, b) ==
    LET d1 == 256 + a[1] - b[1]
        d2 == 255 + a[2] - b[2] + d1 \div 256
        d3 == 255 + a[3] - b[3] + d2 \div 256
        d4 == 255 + a[4] - b[4] + d3 \div 256
    IN  <<d1 % 256, d2 % 256, d3 % 256, d4 % 256>>

\* The body of the loop of do_relocate where R_386_PC32 adds the symbol
\* value and does not subtract the position.
relocate_word_nopc(mem, off, T, type, V) ==
    LET W == rd(mem, off, 4)
    IN  IF type \in {R_386_32, R_386_PC32}
        THEN [ret |-> 0, mem |-> wr(mem, off, add32(W, V))]
        ELSE [ret |-> -1, mem |-> mem]

\* The body of the loop of do_relocate once where and sym->st_value are at
\* hand: the word at offset off of mem, which is address T, is relocated by
\* an entry of kind type against the symbol value V.  ret is -1 and mem is
\* left alone for a kind that is not handled.
relocate_word(mem, off, T, type, V) ==
    LET W == rd(mem, off, 4)
    IN  CASE type = R_386_32 ->
                 [ret |-> 0, mem |-> wr(mem, off, add32(W, V))]
          [] type = R_386_PC32 ->
                 [ret |-> 0, mem |-> wr(mem, off, add32(W, sub32(V, LE32(T))))]
          [] OTHER -> [ret |-> -1, mem |-> mem]

\* ------------------------------------------------------------------------
\* Object files byte by byte
\* ------------------------------------------------------------------------

\* An Elf32_Shdr (sname is the string sh_name points at in shstrtbl).
Shdr(type, name, offset, size, addr, info) ==
    [sh_type |-> type, sname |-> name, sh_offset |-> offset,
     sh_size |-> size, sh_addr |-> addr, sh_info |-> info]

\* An Elf32_Sym: st_name, st_value, st_size, st_info, st_other, st_shndx.
SymEnt(name, value, shndx) ==
    LE32(name) \o LE32(value) \o LE32(0) \o <<0, 0>> \o LE16(shndx)

\* An Elf32_Rel: r_offset, r_info = (sym << 8) + type.
RelEnt(offset, sym, type) == LE32(offset) \o LE32(sym * 256 + type)

\* The address calloc returns for the image: the start of the second page.
\* The first page, where a null pointer and the small sh_addr values of a
\* relocatable object point, is not mapped: an access there faults.
Bases == {4096}

\* The objects followed step by step: the section headers (section i is
\* sh[i + 1]) and the bytes of the file the sections point into (file
\* offset o is bytes[o + 1]; the ELF header and the section header table,
\* read before the first walk, are left out).  Every st_shndx, sh_info and
\* symbol index in them is inside its table, and every address the loads
\* reach is in the image or in the first page.
\*   gcc     the layout a compiler emits: .text, .rel.text, .bss, .comment,
\*           .symtab, .shstrtab, every sh_addr 0.  The file offset of .bss
\*           is where the next section's bytes ("GCC:") are
\*   small   a 16-byte .text and an 8-byte .bss, then .shstrtab
\*   placed  an object whose sh_addr fields happen to be the addresses the
\*           sections get in the image: .text, .symtab (an internal
\*           and an absolute symbol), a REL section named ".data" (the only
\*           kind of REL section the walks copy) with an R_386_32 and an
\*           R_386_PC32 entry against .text
\*   symtab  .text with sh_addr 0 and a .symtab, with an internal symbol,
\*           whose sh_addr is its address in the image
\*   extern  as symtab, with an undefined symbol in place of the internal one
Objects ==
    [gcc |->
        [sh |-> <<Shdr("SHT_NULL", "", 0, 0, 0, 0),
                  Shdr("SHT_PROGBITS", ".text", 0, 8, 0, 0),
                  Shdr("SHT_REL", ".rel.text", 8, 8, 0, 1),
                  Shdr("SHT_NOBITS", ".bss", 16, 4, 0, 0),
                  Shdr("SHT_PROGBITS", ".comment", 16, 4, 0, 0),
                  Shdr("SHT_SYMTAB", ".symtab", 20, 32, 0, 0),
                  Shdr("SHT_STRTAB", ".shstrtab", 52, 4, 0, 0)>>,
         bytes |-> <<16, 0, 0, 0, 252, 255, 255, 255>>
                   \o RelEnt(4, 1, R_386_PC32)
                   \o <<71, 67, 67, 58>>
                   \o SymEnt(0, 0, SHN_UNDEF) \o SymEnt(1, 0, 1)
                   \o <<0, 46, 116, 0>>],
     small |->
        [sh |-> <<Shdr("SHT_NULL", "", 0, 0, 0, 0),
                  Shdr("SHT_PROGBITS", ".text", 0, 16, 0, 0),
                  Shdr("SHT_NOBITS", ".bss", 16, 8, 0, 0),
                  Shdr("SHT_STRTAB", ".shstrtab", 16, 4, 0, 0)>>,
         bytes |-> <<85, 137, 229, 131, 236, 8, 201, 195,
                     85, 137, 229, 131, 236, 8, 201, 195>>
                   \o <<0, 46, 116, 0>>],
     placed |->
        [sh |-> <<Shdr("SHT_NULL", "", 0, 0, 0, 0),
                  Shdr("SHT_PROGBITS", ".text", 0, 8, 4096, 0),
                  Shdr("SHT_SYMTAB", ".symtab", 8, 48, 4104, 0),
                  Shdr("SHT_REL", ".data", 56, 16, 4152, 1),
                  Shdr("SHT_STRTAB", ".shstrtab", 72, 4, 0, 0)>>,
         bytes |-> <<16, 0, 0, 0, 252, 255, 255, 255>>
                   \o SymEnt(0, 0, SHN_UNDEF) \o SymEnt(1, 4, 1)
                   \o SymEnt(2, 305419896, SHN_ABS)
                   \o RelEnt(0, 1, R_386_32) \o RelEnt(4, 2, R_386_PC32)
                   \o <<0, 46, 116, 0>>],
     symtab |->
        [sh |-> <<Shdr("SHT_NULL", "", 0, 0, 0, 0),
                  Shdr("SHT_PROGBITS", ".text", 0, 8, 0, 0),
                  Shdr("SHT_SYMTAB", ".symtab", 8, 32, 4104, 0),
                  Shdr("SHT_STRTAB", ".shstrtab", 40, 4, 0, 0)>>,
         bytes |-> <<16, 0, 0, 0, 252, 255, 255, 255>>
                   \o SymEnt(0, 0, SHN_UNDEF) \o SymEnt(1, 4, 1)
                   \o <<0, 46, 116, 0>>],
     extern |->
        [sh |-> <<Shdr("SHT_NULL", "", 0, 0, 0, 0),
                  Shdr("SHT_PROGBITS", ".text", 0, 8, 4096, 0),
                  Shdr("SHT_SYMTAB", ".symtab", 8, 32, 4104, 0),
                  Shdr("SHT_STRTAB", ".shstrtab", 40, 4, 0, 0)>>,
         bytes |-> <<16, 0, 0, 0, 252, 255, 255, 255>>
                   \o SymEnt(0, 0, SHN_UNDEF) \o SymEnt(1, 0, SHN_UNDEF)
                   \o <<0, 46, 116, 0>>]]

ObjectIds == DOMAIN Objects

\* What the build makes of the undefined behaviour of a load followed step
\* by step:
\*   err0   the value of the uninitialised local err of load_library
\*   dlsym  what the body-less resolve_symbol returns: NULL or a pointer
\*   value  the word dlsym->value reads through that pointer
LdUBs == [err0 : {0, -1}, dlsym : {NULL, 1},
          value : {LE32(0), <<239, 190, 173, 222>>}]

\* No load is followed.
NoLd ==
    [pc |-> "idle", obj |-> "small", si |-> NULL, base |-> 0,
     ub |-> [err0 |-> 0, dlsym |-> NULL, value |-> LE32(0)],
     sechdrs |-> <<>>, totalsize |-> 0, symindex |-> 0, image |-> <<>>,
     q |-> 0, i |-> 0, j |-> 0, err |-> 0, at |-> <<>>, loads |-> <<>>,
     done |-> {}, nrel |-> 0, rsym |-> 0]

\* No relocation entry is at hand.
NoRl ==
    [pc |-> "idle", base |-> 0, off |-> 0, type |-> 0, V |-> LE32(0),
     mem0 |-> <<>>, mem |-> <<>>, ret |-> 0]

\* ------------------------------------------------------------------------
\* The state machine
\* ------------------------------------------------------------------------

\* The record of a completed call: what was called with what, from which
\* pool state, and how it ended.
CallRec(kind, nested, name, file, r, m0) ==
    [kind |-> kind, nested |-> nested, name |-> name, file |-> file,
     stage |-> r.stage, res |-> r.res, si |-> r.si, io |-> r.io,
     err |-> r.err, presocount |-> m0.socount, prefreelist |-> m0.freelist]

NoCall ==
    [kind |-> "none", nested |-> FALSE, name |-> NoName, file |-> "absent",
     stage |-> "none", res |-> NULL, si |-> NULL, io |-> <<>>, err |-> <<>>,
     presocount |-> 0, prefreelist |-> NULL]

\* What is kept of the call before the last one.
Brief(c) ==
    [kind |-> c.kind, nested |-> c.nested, name |-> c.name,
     stage |-> c.stage, res |-> c.res, si |-> c.si]

NoLoad ==
    [active |-> FALSE, name |-> NoName, file |-> "absent", si |-> NULL,
     io |-> <<>>, err |-> <<>>, presocount |-> 0, prefreelist |-> NULL]

\* The statics as linker.c initialises them.
Init ==
    /\ socount = 0
    /\ sopool = <<>>
    /\ freelist = NULL
    /\ solist = NULL
    /\ sonext = NULL
    /\ heap = <<>>
    /\ proc = "running"
    /\ loading = NoLoad
    /\ calls = 0
    /\ last = NoCall
    /\ prev = Brief(NoCall)
    /\ ld = NoLd
    /\ onerel = NoRl

SetMach(m) ==
    /\ socount' = m.socount
    /\ sopool' = m.sopool
    /\ freelist' = m.freelist
    /\ solist' = m.solist
    /\ heap' = m.heap
    /\ sonext' = sonext

\* A caller enters find_library(name) while no load is in progress.  The
\* call runs to its return, or to the point where load_library holds a
\* freshly allocated descriptor.
Begin(name, fid, fault) ==
    /\ proc = "running"
    /\ ~loading.active
    /\ calls < MaxCalls
    /\ calls' = calls + 1
    /\ proc' = proc
    /\ UNCHANGED <<ld, onerel>>
    /\ LET sc == find_scan(sopool, solist, name, SO_MAX + 1)
           h  == load_head(Mach, name, Files[fid], fault)
       IN  IF sc.hit = "miss" /\ h.stage = "alloc_ok"
           THEN /\ SetMach(h.m)
                /\ loading' = [active |-> TRUE, name |-> name, file |-> fid,
                               si |-> h.si, io |-> h.io, err |-> h.err,
                               presocount |-> socount,
                               prefreelist |-> freelist]
                /\ UNCHANGED <<last, prev>>
           ELSE LET r == find_library(Mach, name, Files[fid], fault, NoUB)
                IN  /\ SetMach(r.m)
                    /\ loading' = loading
                    /\ last' = CallRec("find", FALSE, name, fid, r, Mach)
                    /\ prev' = Brief(last)

\* The load in progress runs from the allocation of its descriptor to the
\* return of find_library (or to the end of the process).
End(fault, ub) ==
    /\ proc = "running"
    /\ loading.active
    /\ LET t == load_tail(Mach, loading.si, Files[loading.file], fault, ub)
           r == [stage |-> t.stage, res |-> t.res, si |-> loading.si,
                 io |-> loading.io \o t.io, err |-> loading.err \o t.err]
           m0 == [socount |-> loading.presocount,
                  freelist |-> loading.prefreelist]
       IN  /\ SetMach(t.m)
           /\ proc' = t.proc
           /\ last' = CallRec("find", FALSE, loading.name, loading.file, r, m0)
           /\ prev' = Brief(last)
    /\ loading' = NoLoad
    /\ calls' = calls
    /\ UNCHANGED <<ld, onerel>>

\* find_library(name) is entered again while a load is in progress (the
\* descriptor is allocated and load_library has not returned); the
\* re-entrant call runs to its return.
Reenter(name, fid, fault, ub) ==
    /\ proc = "running"
    /\ loading.active
    /\ calls < MaxCalls
    /\ calls' = calls + 1
    /\ LET r == find_library(Mach, name, Files[fid], fault, ub)
       IN  /\ SetMach(r.m)
           /\ proc' = r.proc
           /\ last' = CallRec("find", TRUE, name, fid, r, Mach)
           /\ prev' = Brief(last)
    /\ loading' = loading
    /\ UNCHANGED <<ld, onerel>>

Next ==
    \/ \E name \in Names, fid \in FileIds, fault \in HeadFaults :
           Begin(name, fid, fault)
    \/ \E fault \in TailFaults, ub \in UBsOf(Files[loading.file]) :
           End(fault, ub)
    \/ \E name \in Names, fid \in FileIds, fault \in HeadFaults \cup TailFaults :
           \E ub \in UBsOf(Files[fid]) : Reenter(name, fid, fault, ub)

Spec == Init /\ [][Next]_vars

\* ------------------------------------------------------------------------
\* The pool on its own: alloc_info and free_info called one after another
\* ------------------------------------------------------------------------

PoolNames == {Name("a", 1), Name("x..x", SOINFO_NAME_LEN)}

\* alloc_info(name)
AllocCall(name) ==
    /\ LET a == alloc_info(Mach, name)
           r == [stage |-> IF a.si = NULL THEN "alloc" ELSE "alloc_ok",
                 res |-> a.si, si |-> a.si, io |-> <<>>, err |-> a.err]
       IN  /\ SetMach(a.m)
           /\ last' = CallRec("alloc", FALSE, name, "absent", r, Mach)
           /\ prev' = Brief(last)
    /\ UNCHANGED <<proc, loading, calls, ld, onerel>>

\* free_info(si) on a descriptor alloc_info returned: the first of the pool
\* or the one carved last.
FreeCall(si) ==
    /\ si \in 1..socount
    /\ LET f == free_info(Mach, si)
           r == [stage |-> IF f.err = <<>> THEN "freed" ELSE "notinsolist",
                 res |-> NULL, si |-> si, io |-> <<>>, err |-> f.err]
       IN  /\ SetMach(f.m)
           /\ proc' = IF f.crash THEN "crashed" ELSE proc
           /\ last' = CallRec("free", FALSE, sopool[si].name, "absent", r, Mach)
           /\ prev' = Brief(last)
    /\ UNCHANGED <<loading, calls, ld, onerel>>

NextPool ==
    \/ \E name \in PoolNames : proc = "running" /\ AllocCall(name)
    \/ \E si \in {1, socount} : proc = "running" /\ FreeCall(si)

SpecPool == Init /\ [][NextPool]_vars

\* ------------------------------------------------------------------------
\* load_library step by step: the two walks, update_symbols, relocation
\* ------------------------------------------------------------------------

\* elf_loadsection(fd, s, q): lseek to sh_offset and read sh_size bytes,
\* or as many as the file has from there, to image + q.  The bytes that
\* fall beyond the image go to whatever follows it on the heap and are
\* not part of the image.
elf_loadsection(f, s, q, image) ==
    LET have == IF s.sh_offset >= Len(f.bytes) THEN 0
                ELSE IF s.sh_offset + s.sh_size > Len(f.bytes)
                THEN Len(f.bytes) - s.sh_offset
                ELSE s.sh_size
    IN  wr(image, q, rd(f.bytes, s.sh_offset, have))

\* Whether the n bytes at address a lie in the image of the load.
InImage(l, a, n) == l.base <= a /\ a + n <= l.base + l.totalsize

\* One pass of the body of the second walk, for section l.i: the section
\* is loaded at the cursor if it is one the image takes, and the cursor
\* moves on by its size (q += p->sh_size).  at records the cursor of each
\* pass, loads the elf_loadsection calls (two for a REL or RELA section).
copy_step(l) ==
    LET p    == l.sechdrs[l.i + 1]
        end  == l.i + 1 >= Len(l.sechdrs)
        call == [sec |-> l.i, q |-> l.q, size |-> p.sh_size]
    IN  [l EXCEPT
            !.image = IF Included(p)
                      THEN elf_loadsection(Objects[l.obj], p, l.q, @)
                      ELSE @,
            !.loads = CASE ~Included(p) -> @
                        [] p.sh_type \in {"SHT_RELA", "SHT_REL"} ->
                               @ \o <<call, call>>
                        [] OTHER -> Append(@, call),
            !.at = Append(@, l.q),
            !.q = @ + p.sh_size,
            !.i = IF end THEN 1 ELSE @ + 1,
            !.pc = IF end THEN "symbols" ELSE "copy"]

\* The loop condition of update_symbols where the last entry is left out.
sym_more_short(i, num) == i < num - 1

\* The loop condition of update_symbols: for (i = 1; i < num; i++).
sym_more(i, num) == i < num

\* One pass of the loop of update_symbols, for entry l.i of the table at
\* sechdrs[symindex].sh_addr, or its return when the loop has ended.  An
\* access outside the image faults.
sym_step(l) ==
    LET sh    == l.sechdrs
        num   == sh[l.symindex + 1].sh_size \div SIZEOF_SYM
        a     == sh[l.symindex + 1].sh_addr + SIZEOF_SYM * l.i
        off   == a - l.base
        shndx == U16(rd(l.image, off + 14, 2))
        Set(v) == [l EXCEPT !.image = wr(@, off + 4, v), !.i = @ + 1,
                            !.done = @ \cup {l.i}]
    IN  IF ~sym_more(l.i, num)
        THEN [l EXCEPT !.pc = "relocate", !.i = 1, !.j = 0]
        ELSE IF ~InImage(l, a, SIZEOF_SYM) THEN [l EXCEPT !.pc = "crashed"]
        ELSE CASE shndx = SHN_UNDEF ->
                      IF l.ub.dlsym = NULL THEN [l EXCEPT !.pc = "exited"]
                      ELSE Set(l.ub.value)
               [] shndx = SHN_ABS ->
                      [l EXCEPT !.i = @ + 1, !.done = @ \cup {l.i}]
               [] OTHER -> Set(LE32(sh[shndx + 1].sh_addr))

\* One pass of the loop of do_relocate(sechdrs, symindex, l.i), for entry
\* l.j of the table at sechdrs[relsec].sh_addr: the kind is looked at
\* before sym and where are read through, and a kind that is not handled
\* makes do_relocate return -1, which load_library stores in err before
\* it takes the fail path.  nrel counts the entries applied, rsym is the
\* symbol index of the last one.  An access outside the image faults.
rel_entry(l) ==
    LET sh    == l.sechdrs
        s     == sh[l.i + 1]
        ra    == s.sh_addr + SIZEOF_REL * l.j
        r_off == rd(l.image, ra - l.base, 4)
        info  == rd(l.image, ra - l.base + 4, 4)
        type  == info[1]
        symn  == info[2] + 256 * info[3] + 65536 * info[4]
        where == sh[s.sh_info + 1].sh_addr + U32(r_off)
        sym   == sh[l.symindex + 1].sh_addr + SIZEOF_SYM * symn
        V     == rd(l.image, sym - l.base + 4, 4)
        w     == relocate_word(l.image, where - l.base, where, type, V)
    IN  IF ~InImage(l, ra, SIZEOF_REL) THEN [l EXCEPT !.pc = "crashed"]
        ELSE IF type \notin {R_386_32, R_386_PC32}
        THEN [l EXCEPT !.err = -1, !.pc = "fail"]
        ELSE IF ~InImage(l, sym + 4, 4) \/ ~InImage(l, where, 4)
        THEN [l EXCEPT !.pc = "crashed"]
        ELSE [l EXCEPT !.image = w.mem, !.j = @ + 1, !.nrel = @ + 1,
                       !.rsym = symn]

\* One step of the relocation loop of load_library, at section l.i: a
\* section that is no SHT_REL section is passed with err as it is; in a
\* SHT_REL section do_relocate handles entry l.j, or returns 0 when the
\* entries are done.
rel_step(l) ==
    LET s   == l.sechdrs[l.i + 1]
        num == s.sh_size \div SIZEOF_REL
    IN  IF l.i >= Len(l.sechdrs) THEN [l EXCEPT !.pc = "done"]
        ELSE IF s.sh_type # "SHT_REL"
        THEN IF l.err # 0 THEN [l EXCEPT !.pc = "fail"]
             ELSE [l EXCEPT !.i = @ + 1]
        ELSE IF l.j >= num THEN [l EXCEPT !.err = 0, !.i = @ + 1, !.j = 0]
        ELSE rel_entry(l)

\* load_library has a descriptor for "a", has read the section headers and
\* the section names of an object and is about to walk the sections.
InitLoad ==
    LET m0 == [socount |-> 0, sopool |-> <<>>, freelist |-> NULL,
               solist |-> NULL, heap |-> <<>>]
        a  == alloc_info(m0, Name("a", 1))
        m  == calloc(calloc(a.m, "sechdrs", a.si), "shstrtbl", a.si)
    IN  /\ socount = m.socount
        /\ sopool = m.sopool
        /\ freelist = m.freelist
        /\ solist = m.solist
        /\ sonext = NULL
        /\ heap = m.heap
        /\ proc = "running"
        /\ calls = 1
        /\ last = NoCall
        /\ prev = Brief(NoCall)
        /\ onerel = NoRl
        /\ \E obj \in ObjectIds, base \in Bases, ub \in LdUBs :
              /\ ld = [NoLd EXCEPT !.pc = "collect", !.obj = obj,
                                   !.si = a.si, !.base = base, !.ub = ub,
                                   !.sechdrs = Objects[obj].sh,
                                   !.err = ub.err0]
              /\ loading = [NoLoad EXCEPT !.active = TRUE,
                                          !.name = Name("a", 1),
                                          !.file = obj, !.si = a.si]

\* What a step that took the load to l leaves of the process and of the
\* pool: a fault or exit(-1) ends the process, the fail: label frees the
\* descriptor.
LdEnd(l) ==
    /\ proc' = CASE l.pc = "crashed" -> "crashed"
                 [] l.pc = "exited" -> "exited"
                 [] l.pc = "fail" /\ fail_path(Mach, l.si).crash -> "crashed"
                 [] OTHER -> proc
    /\ IF l.pc = "fail" THEN SetMach(fail_path(Mach, l.si).m)
       ELSE SetMach(Mach)
    /\ loading' = IF l.pc \in {"done", "fail"} THEN NoLoad ELSE loading
    /\ UNCHANGED <<calls, last, prev, onerel>>

\* The first walk and the calloc of the image.
LdCollect ==
    /\ ld.pc = "collect"
    /\ LET ts == totalsize(ld.sechdrs, 1)
           m  == [calloc(Mach, "image", ld.si)
                     EXCEPT !.sopool[ld.si].image = Len(heap) + 1]
       IN  /\ ld' = [ld EXCEPT !.pc = "copy", !.totalsize = ts,
                               !.symindex = symindex(ld.sechdrs, 1, 0),
                               !.image = Zeros(ts), !.q = 0, !.i = 0]
           /\ SetMach(m)
    /\ UNCHANGED <<proc, loading, calls, last, prev, onerel>>

\* One pass of the second walk.
LdCopy ==
    /\ ld.pc = "copy"
    /\ ld' = copy_step(ld)
    /\ LdEnd(ld')

\* One pass of the loop of update_symbols, or its return.
LdSymbol ==
    /\ ld.pc = "symbols"
    /\ ld' = sym_step(ld)
    /\ LdEnd(ld')

\* One step of the relocation loop.
LdReloc ==
    /\ ld.pc = "relocate"
    /\ ld' = rel_step(ld)
    /\ LdEnd(ld')

NextLoad == LdCollect \/ LdCopy \/ LdSymbol \/ LdReloc

SpecLoad == InitLoad /\ [][NextLoad]_vars

\* ------------------------------------------------------------------------
\* One relocation entry on its own
\* ------------------------------------------------------------------------

\* The words found at the target and the symbol values.
Words ==
    {LE32(0), LE32(16), <<252, 255, 255, 255>>, <<255, 255, 255, 255>>,
     <<0, 128, 4, 8>>}

\* Eight bytes of memory at base with the word W at offset off.
MemWith(off, W) == wr([k \in 1..8 |-> 170], off, W)

\* do_relocate is about to handle an entry of kind type whose target is
\* base + off and whose symbol has the value V.
InitRel ==
    /\ socount = 0
    /\ sopool = <<>>
    /\ freelist = NULL
    /\ solist = NULL
    /\ sonext = NULL
    /\ heap = <<>>
    /\ proc = "running"
    /\ loading = NoLoad
    /\ calls = 0
    /\ last = NoCall
    /\ prev = Brief(NoCall)
    /\ ld = NoLd
    /\ \E base \in {4096, 2147483632}, off \in {0, 1, 4}, W \in Words,
          V \in Words, type \in {R_386_32, R_386_PC32, 3} :
              onerel = [pc |-> "entry", base |-> base, off |-> off,
                        type |-> type, V |-> V, mem0 |-> MemWith(off, W),
                        mem |-> MemWith(off, W), ret |-> 0]

\* The entry is handled.
RelApply ==
    /\ onerel.pc = "entry"
    /\ LET w == relocate_word(onerel.mem, onerel.off,
                              onerel.base + onerel.off, onerel.type,
                              onerel.V)
       IN  onerel' = [onerel EXCEPT !.pc = "applied", !.mem = w.mem,
                                    !.ret = w.ret]
    /\ UNCHANGED <<socount, sopool, freelist, solist, sonext, heap, proc,
                   loading, calls, last, prev, ld>>

NextRel == RelApply

SpecRel == InitRel /\ [][NextRel]_vars

\* ------------------------------------------------------------------------
\* Properties
\* ------------------------------------------------------------------------

InSeq(x, q) == \E i \in 1..Len(q) : q[i] = x

\* The statics are as the call recorded in last left them: no load has
\* begun since (a re-entrant call is recorded while the load is in progress).
AfterLast == last.kind # "none" /\ (loading.active => last.nested)

\* Whether the active list holds a descriptor of that name.
NameOnSolist(name) ==
    \E k \in ListSlots(sopool, solist, SO_MAX + 1) : sopool[k].name = name

\* The call ran load_library, which returned NULL.
FailedLoading(c) ==
    c.kind = "find" /\ c.res = NULL /\ c.stage \notin {"error", "linked", "recursive"}

\* The images on the heap that belong to descriptor si.
ImagesOf(si) == {b \in 1..Len(heap) : heap[b].kind = "image" /\ heap[b].owner = si}

\* C1. Idempotent lookup: when find_library(x) has loaded x, the next
\* find_library(x) returns the same descriptor, that descriptor is LINKED,
\* and the second call opens no file and builds no second image.
C1_IdempotentLookup ==
    (/\ prev.kind = "find" /\ last.kind = "find"
     /\ ~prev.nested /\ ~last.nested /\ ~loading.active
     /\ prev.stage = "done" /\ prev.res # NULL
     /\ last.name = prev.name /\ proc = "running")
    => /\ last.res = prev.res
       /\ "FLAG_LINKED" \in sopool[last.res].flags
       /\ ~InSeq("open", last.io)
       /\ last.si = NULL
       /\ Cardinality(ImagesOf(last.res)) = 1

\* C2. After a find_library(name) that had to load the module and
\* succeeded, the returned descriptor has FLAG_LINKED and is reached by
\* name on the active list.
C2_LoadedIsLinkedAndListed ==
    (AfterLast /\ last.kind = "find" /\ last.stage = "done")
    => /\ "FLAG_LINKED" \in sopool[last.res].flags
       /\ OnList(sopool, solist, last.res, SO_MAX + 1)
       /\ find_scan(sopool, solist, last.name, SO_MAX + 1).si = last.res

\* C3. When load_library fails after the descriptor was allocated (the
\* section-header read, the string-table read, the image allocation, the
\* relocation), the descriptor is back on the free list and the next
\* alloc_info returns it, no image buffer of it is left allocated, and no
\* entry of that name is on the active list.
C3_FailedLoadReleased ==
    (/\ AfterLast /\ last.kind = "find" /\ proc = "running"
     /\ last.si # NULL /\ last.res = NULL
     /\ last.stage \in {"read_shdr", "read_str", "calloc_image", "relocate"})
    => /\ OnList(sopool, freelist, last.si, SO_MAX + 1)
       /\ alloc_info(Mach, Name("a", 1)).si = last.si
       /\ ImagesOf(last.si) = {}
       /\ ~NameOnSolist(last.name)

\* C4. Between calls, every carved slot (index < socount) is on exactly one
\* of the free list and the active list.
C4_ExactlyOneList ==
    ~loading.active =>
        \A k \in 1..socount :
            OnList(sopool, freelist, k, SO_MAX + 1)
                # OnList(sopool, solist, k, SO_MAX + 1)

\* C5. Pool capacity and reuse: with SO_MAX descriptors allocated and none
\* released alloc_info fails; after a free_info of one of them the next
\* alloc_info succeeds and returns the released slot.
C5_CapacityAndReuse ==
    /\ (last.kind = "alloc" /\ prev.kind = "alloc"
        /\ last.presocount = SO_MAX /\ last.prefreelist = NULL)
       => last.res = NULL
    /\ (last.kind = "alloc" /\ prev.kind = "free"
        /\ last.presocount = SO_MAX /\ last.name.len < SOINFO_NAME_LEN)
       => last.res = prev.si

\* C6 as claimed. Name bound: for a name of SOINFO_NAME_LEN characters or
\* more find_library fails, and no file open, seek or read comes before
\* the rejection.
C6_NoIOBeforeRejection ==
    (last.kind = "find" /\ last.name.len >= SOINFO_NAME_LEN)
    => /\ last.res = NULL
       /\ \A i \in 1..Len(last.io) : last.io[i] \notin {"open", "lseek", "read"}

\* C6 as amended. For a name of SOINFO_NAME_LEN characters or more
\* find_library fails and allocates no descriptor; when the name is
\* rejected (by alloc_info) the file has already been opened and its ELF
\* header sought and read, and no I/O follows; only a name longer than
\* OPEN_NAME_MAX fails before any I/O.
C6_NameRejectedAfterHeaderIO ==
    (last.kind = "find" /\ last.name.len >= SOINFO_NAME_LEN)
    => /\ last.res = NULL
       /\ last.si = NULL
       /\ InSeq("toolong", last.err)
              => last.io = <<"stat", "open", "lseek", "read">>
       /\ last.name.len > OPEN_NAME_MAX => last.io = <<>>

\* A name of SOINFO_NAME_LEN characters was rejected by alloc_info after
\* the file was opened and read.
C6_Witness ==
    /\ last.kind = "find"
    /\ last.name.len = SOINFO_NAME_LEN
    /\ last.stage = "alloc"
    /\ InSeq("toolong", last.err)
    /\ InSeq("open", last.io)

\* The header of f fails the magic or the type check.
BadHeader(f) == f.e_ident # ELFMAG \/ f.e_type # "ET_REL"

\* C7. Magic/type rejection: when the file's header has a wrong magic byte,
\* or the right magic and a type other than relocatable, find_library
\* fails, no descriptor of that name is on the active list afterwards, and
\* socount and the free list are as before the call.
C7_BadHeaderRejected ==
    (/\ last.kind = "find"
     /\ Files[last.file].exists /\ BadHeader(Files[last.file]))
    => /\ last.res = NULL
       /\ last.si = NULL
       /\ AfterLast => /\ socount = last.presocount
                       /\ freelist = last.prefreelist
                       /\ ~NameOnSolist(last.name)

\* An executable-type object was rejected by verify_elf_object when the
\* pool already held a descriptor.
C7_Witness ==
    /\ AfterLast
    /\ last.kind = "find"
    /\ last.file = "exec"
    /\ last.stage = "verify"
    /\ last.presocount = 1

\* C8 as claimed. Stable failure: once find_library(name) has failed
\* during loading, the next find_library(name) fails too, and without a
\* file open.
C8_StableFailure ==
    (FailedLoading(prev) /\ last.kind = "find" /\ last.name = prev.name)
    => /\ last.res = NULL
       /\ ~InSeq("open", last.io)

\* C8 as amended. A failed load is not remembered: no descriptor carries
\* FLAG_ERROR, and after find_library(name) has failed during loading the
\* next find_library(name) does not find the name on the active list: it
\* runs load_library again, which opens the file again whenever it exists
\* and the name is no longer than OPEN_NAME_MAX.
C8_FailedLoadRetried ==
    /\ \A k \in 1..socount : "FLAG_ERROR" \notin sopool[k].flags
    /\ (FailedLoading(prev) /\ last.kind = "find" /\ last.name = prev.name)
       => /\ last.stage \notin {"error", "linked", "recursive"}
          /\ (Files[last.file].exists /\ last.name.len <= OPEN_NAME_MAX)
                 => InSeq("open", last.io)

\* A load failed after its descriptor was allocated, and the next
\* find_library of the same name loaded the module.
C8_Witness ==
    /\ FailedLoading(prev)
    /\ prev.si # NULL
    /\ last.kind = "find"
    /\ last.name = prev.name
    /\ last.stage = "done"
    /\ last.res # NULL

\* C9. Cyclic guard: a find_library(name) entered while a load of the same
\* name is in progress fails with the recursive-link report and starts no
\* second load of that name.
C9_CyclicGuard ==
    (/\ loading.active /\ last.kind = "find" /\ last.nested
     /\ last.name = loading.name /\ proc = "running")
    => /\ last.res = NULL
       /\ last.stage = "recursive"
       /\ InSeq("recursive", last.err)
       /\ last.io = <<>>
       /\ last.si = NULL

\* C10 as claimed. When an undefined symbol of the module being loaded has
\* no match, the load fails and returns to the caller, and the process
\* goes on.
C10_UnresolvedReturns ==
    (last.kind = "find" /\ InSeq("unknownsym", last.err))
    => /\ last.res = NULL
       /\ proc = "running"

\* C10 as amended. When an undefined symbol of the module being loaded has
\* no match, update_symbols ends the process with exit(-1): the load does
\* not return to the caller and no further call can be made.
C10_UnresolvedExits ==
    (last.kind = "find" /\ InSeq("unknownsym", last.err))
    => /\ proc = "exited"
       /\ last.stage = "symbols"
       /\ last.res = NULL
       /\ ~ENABLED Next

\* The load of an object with an undefined symbol ended the process.
C10_Witness ==
    /\ last.kind = "find"
    /\ last.file = "undef"
    /\ InSeq("unknownsym", last.err)
    /\ proc = "exited"

\* Whether a REL section of the object holds an entry of a kind other than
\* R_386_32 and R_386_PC32.
HasUnsupportedRel(f) ==
    \E i \in 1..Len(f.sh) :
        /\ f.sh[i].sh_type = "SHT_REL"
        /\ \E j \in 1..Len(f.sh[i].rels) :
               f.sh[i].rels[j].r_type \notin {"R_386_32", "R_386_PC32"}

\* C11. Fatal-on-unsupported: find_library of an object with a REL entry of
\* an unsupported kind fails (it returns NULL to its caller, the process
\* goes on) and afterwards the active list holds no descriptor of that name.
C11_FatalOnUnsupported ==
    (last.kind = "find" /\ HasUnsupportedRel(Files[last.file]))
    => /\ last.res = NULL
       /\ proc = "running"
       /\ AfterLast => ~NameOnSolist(last.name)

\* ------------------------------------------------------------------------
\* Properties of a load followed step by step
\* ------------------------------------------------------------------------

\* update_symbols has just returned; the second walk has just ended.
SymbolsDone == ld.pc = "relocate" /\ ld.i = 1 /\ ld.j = 0 /\ ld.nrel = 0

CopyDone == ld.pc = "symbols" /\ ld.i = 1 /\ ld.done = {}

\* The symbol table update_symbols and do_relocate work on: the number of
\* its entries and the offset in the image of entry k.
SymNum == ld.sechdrs[ld.symindex + 1].sh_size \div SIZEOF_SYM

SymOff(k) == ld.sechdrs[ld.symindex + 1].sh_addr - ld.base + SIZEOF_SYM * k

\* Entry k of the symbol table as the file has it.
FileSym(k) ==
    rd(Objects[ld.obj].bytes,
       ld.sechdrs[ld.symindex + 1].sh_offset + SIZEOF_SYM * k, SIZEOF_SYM)

\* The master table __linker_init built from the core's symbol file: the
\* address of the symbol whose name is at st_name 1.
MasterTable == [n \in {1} |-> <<0, 128, 4, 8>>]

\* The sizes of the included sections among the first n of sh.
RECURSIVE IncludedSize(_, _)
IncludedSize(sh, n) ==
    IF n = 0 THEN 0
    ELSE IncludedSize(sh, n - 1) + (IF Included(sh[n]) THEN sh[n].sh_size ELSE 0)

\* C12. Symbol classification: when update_symbols has returned, entry 0 of
\* the symbol table is as in the file and every entry i >= 1 holds, if
\* undefined, the master table's address for its name; if absolute, the
\* value it had; otherwise the load address in the image of its section.
C12_SymbolClassification ==
    (SymbolsDone /\ SymNum > 1)
    => /\ rd(ld.image, SymOff(0), SIZEOF_SYM) = FileSym(0)
       /\ \A k \in 1..(SymNum - 1) :
            LET e     == rd(ld.image, SymOff(k), SIZEOF_SYM)
                shndx == U16(rd(e, 14, 2))
                value == rd(e, 4, 4)
                name  == U16(rd(e, 0, 2))
            IN  CASE shndx = SHN_UNDEF ->
                         name \in DOMAIN MasterTable /\ value = MasterTable[name]
                  [] shndx = SHN_ABS -> value = rd(FileSym(k), 4, 4)
                  [] OTHER -> value = LE32(ld.base + ld.at[shndx + 1])

\* The halves of a 32-bit word in memory, as numbers.
Lo(w) == w[1] + 256 * w[2]

Hi(w) == w[3] + 256 * w[4]

\* C13. Relocation arithmetic: an entry with target address T, symbol
\* value V and old word W at T leaves (W + V) mod 2^32 at T if it is direct
\* and (W + V - T) mod 2^32 if it is PC-relative, and changes no byte
\* outside that word.  (2^32 - T is written as its two 16-bit halves.)
C13_RelocationArithmetic ==
    (onerel.pc = "applied" /\ onerel.type \in {R_386_32, R_386_PC32})
    => LET T  == onerel.base + onerel.off
           W  == rd(onerel.mem0, onerel.off, 4)
           X  == rd(onerel.mem, onerel.off, 4)
           pc == onerel.type = R_386_PC32
           lo == Lo(W) + Lo(onerel.V) + (IF pc THEN 65536 - (T % 65536) ELSE 0)
           hi == Hi(W) + Hi(onerel.V) + lo \div 65536
                 + (IF pc THEN 65535 - (T \div 65536) ELSE 0)
       IN  /\ onerel.ret = 0
           /\ Lo(X) = lo % 65536
           /\ Hi(X) = hi % 65536
           /\ \A k \in 1..Len(onerel.mem0) :
                  (k <= onerel.off \/ k > onerel.off + 4)
                  => onerel.mem[k] = onerel.mem0[k]

\* A PC-relative entry was applied at an odd address to the word -4
\* against a symbol at 0x08048000: the sum wraps around 2^32.
C13_Witness ==
    /\ onerel.pc = "applied"
    /\ onerel.type = R_386_PC32
    /\ onerel.off = 1
    /\ rd(onerel.mem0, onerel.off, 4) = <<252, 255, 255, 255>>
    /\ onerel.V = <<0, 128, 4, 8>>
    /\ onerel.mem # onerel.mem0

\* C14. Layout: when the second walk has ended the image is as large as
\* the included sections together, and every included section was placed
\* at the offset that is the sum of the sizes of the included sections
\* before it, where its file bytes are (if it is not uninitialised).
C14_Layout ==
    CopyDone
    => /\ Len(ld.image) = IncludedSize(ld.sechdrs, Len(ld.sechdrs))
       /\ \A s \in 1..Len(ld.sechdrs) :
            LET p == ld.sechdrs[s]
            IN  Included(p)
                => /\ ld.at[s] = IncludedSize(ld.sechdrs, s - 1)
                   /\ p.sh_type # "SHT_NOBITS"
                      => rd(ld.image, ld.at[s], p.sh_size)
                         = rd(Objects[ld.obj].bytes, p.sh_offset, p.sh_size)

\* C15. Uninitialised sections only reserve space: elf_loadsection is not
\* called for a SHT_NOBITS section, and when the second walk has ended the
\* part of the image such a section was given is all zero.
C15_NobitsOnlyReserve ==
    /\ \A k \in 1..Len(ld.loads) :
           ld.sechdrs[ld.loads[k].sec + 1].sh_type # "SHT_NOBITS"
    /\ CopyDone
       => \A s \in 1..Len(ld.sechdrs) :
              ld.sechdrs[s].sh_type = "SHT_NOBITS"
              => \A b \in 1..ld.sechdrs[s].sh_size :
                     ld.at[s] + b <= Len(ld.image)
                     => ld.image[ld.at[s] + b] = 0

\* C16. When the second walk has ended and update_symbols is about to run,
\* sh_addr of every included section is the address in the image where the
\* walk placed the section.
C16_ShAddrIsLoadAddress ==
    CopyDone
    => \A s \in 1..Len(ld.sechdrs) :
           Included(ld.sechdrs[s])
           => ld.sechdrs[s].sh_addr = ld.base + ld.at[s]

\* C17. Ordering within one load: once the relocation loop is entered, and
\* so when any relocation entry has been applied, update_symbols has
\* handled every entry 1..num-1 of the symbol table, and the symbol an
\* applied entry read is one of them (or entry 0, the null symbol, which
\* update_symbols never handles).
C17_SymbolsBeforeRelocation ==
    (ld.pc = "relocate" \/ ld.nrel > 0)
    => /\ ld.done = 1..(SymNum - 1)
       /\ ld.nrel > 0 => ld.rsym \in ld.done \cup {0}

\* Two relocation entries were applied against a table of three symbols.
C17_Witness ==
    /\ ld.pc = "done"
    /\ ld.nrel = 2
    /\ SymNum = 3
    /\ ld.rsym = 2

\* C18. The active list is never empty (its first entry is the base entry
\* of the process), so when the walk of free_info finds its target on the
\* list, prev is not null.
C18_BaseEntryFirst ==
    /\ solist # NULL
    /\ \A si \in 1..socount :
           LET r == trav_solist(sopool, solist, NULL, si, SO_MAX + 1)
           IN  r.trav # NULL => r.prev # NULL

\* C19. Every elf_loadsection call of the second walk writes inside the
\* image: image <= q and q + sh_size <= image + totalsize.
C19_CopyInsideImage ==
    \A k \in 1..Len(ld.loads) :
        /\ 0 <= ld.loads[k].q
        /\ ld.loads[k].q + ld.loads[k].size <= ld.totalsize

\* C20. load_library takes the fail path from its relocation loop only
\* when do_relocate reported an unsupported kind in that load.
C20_RelocationFailsOnlyOnUnsupported ==
    (/\ last.kind = "find" /\ last.stage = "relocate"
     /\ last.res = NULL /\ proc = "running")
    => InSeq("unknownrel", last.err)

====
